---- MODULE Spec2Model ----
(***************************************************************************)
(* Model of warp's compression filters (src/filters/compression.rs):       *)
(* the Content-Encoding merge, the gzip / deflate / brotli / auto          *)
(* compression functions, the CompressableBody stream adapter and the      *)
(* WithCompressionFuture that wraps an inner filter's future.              *)
(*                                                                         *)
(* Conventions.  Option<T> is a sequence of length <= 1: None is << >> and *)
(* Some(v) is <<v>>.  A HeaderValue is the sequence of its bytes.  A       *)
(* HeaderMap is a function from header name to the sequence of the values  *)
(* stored under that name, in insertion order.                             *)
(***************************************************************************)
EXTENDS Integers, Sequences, FiniteSets, TLC

\* Bounds of the model.
MaxApplied == 3
MaxPending == 2
MaxPolls == 3
MaxMerges == 2
MaxValueLen == 2

None == << >>
Some(v) == <<v>>

-----------------------------------------------------------------------------
(* headers::ContentCoding and http::header::HeaderValue, as the code uses   *)
(* them.                                                                    *)

ContentCodings == {"BROTLI", "COMPRESS", "DEFLATE", "GZIP", "IDENTITY"}

\* ContentCoding::to_string / Into<HeaderValue>: the coding's token, as bytes.
to_string(coding) ==
    CASE coding = "GZIP"     -> <<103, 122, 105, 112>>
      [] coding = "DEFLATE"  -> <<100, 101, 102, 108, 97, 116, 101>>
      [] coding = "BROTLI"   -> <<98, 114>>
      [] coding = "COMPRESS" -> <<99, 111, 109, 112, 114, 101, 115, 115>>
      [] OTHER               -> <<105, 100, 101, 110, 116, 105, 116, 121>>

\* ContentCoding::from_str: an unknown name is IDENTITY.
from_str(s) ==
    CASE s = "gzip"     -> "GZIP"
      [] s = "deflate"  -> "DEFLATE"
      [] s = "br"       -> "BROTLI"
      [] s = "compress" -> "COMPRESS"
      [] OTHER          -> "IDENTITY"

\* HeaderValue::to_str: Ok(the text) only when every byte is visible ASCII
\* (or a tab); Err is None here.
to_str(val) ==
    IF \A i \in 1..Len(val) : (val[i] >= 32 /\ val[i] < 127) \/ val[i] = 9
    THEN Some(val)
    ELSE None

\* HeaderValue::try_from(&String): Ok only when no byte is a control
\* character (tab excepted) or DEL.
try_from(bytes) ==
    IF \A i \in 1..Len(bytes) : (bytes[i] >= 32 /\ bytes[i] # 127) \/ bytes[i] = 9
    THEN Some(bytes)
    ELSE None

\* format!("{}, {}", a, b)
format(a, b) == a \o <<44, 32>> \o b

\* HeaderMap::remove: every value under the name goes; the first is returned.
remove(headers, name) ==
    [map |-> [headers EXCEPT ![name] = << >>],
     ret |-> IF headers[name] = << >> THEN None ELSE Some(headers[name][1])]

\* HeaderMap::append: the value is added after those already under the name.
append(headers, name, value) == [headers EXCEPT ![name] = Append(@, value)]

\* AcceptEncoding::prefered_encoding: the first entry of the header's codings
\* ranked by descending quality (the ranking is stable); None when the header
\* lists nothing.
prefered_encoding(header) ==
    IF header = << >>
    THEN None
    ELSE LET best == CHOOSE i \in 1..Len(header) :
                        /\ \A j \in 1..Len(header) : header[j].q <= header[i].q
                        /\ \A j \in 1..(i - 1) : header[j].q < header[i].q
         IN  Some(from_str(header[best].coding))

-----------------------------------------------------------------------------
(* The body wrappers.                                                       *)

\* impl From<Body> for CompressableBody<Body, hyper::Error>
CompressableBody_from(body) == [body |-> body]

\* GzipEncoder::new / DeflateEncoder::new / BrotliEncoder::new
Encoder_new(coding, stream) == [encoder |-> coding, inner |-> stream, done |-> FALSE]

\* Body::wrap_stream
wrap_stream(stream) == [stream |-> stream]

\* Response::from_parts
from_parts(head, body) == [head |-> head, body |-> body]

-----------------------------------------------------------------------------
(* The compression functions.                                               *)

\* Mutant: the existing value is overwritten.
create_encoding_header_overwrites(existing, coding) == to_string(coding)

\* Mutant: the new coding is put after the existing value.
create_encoding_header_appends(existing, coding) ==
    IF existing # None /\ to_str(existing[1]) # None
    THEN LET built == try_from(format(to_str(existing[1])[1], to_string(coding)))
         IN  IF built # None THEN built[1] ELSE to_string(coding)
    ELSE to_string(coding)

create_encoding_header(existing, coding) ==
    IF existing # None /\ to_str(existing[1]) # None
    THEN LET built == try_from(format(to_string(coding), to_str(existing[1])[1]))
         IN  IF built # None THEN built[1] ELSE to_string(coding)
    ELSE to_string(coding)

\* Mutant: the body goes through another coding's encoder than the header
\* names.
gzip_wrong_encoder(props) ==
    LET body == wrap_stream(Encoder_new("DEFLATE", props.body))
        r1 == remove(props.head.headers, "content-encoding")
        header == create_encoding_header(r1.ret, "GZIP")
        h2 == append(r1.map, "content-encoding", header)
        h3 == remove(h2, "content-length").map
    IN  from_parts([props.head EXCEPT !.headers = h3], body)

\* Mutant: the new value is appended without removing the old entries.
gzip_appends_only(props) ==
    LET body == wrap_stream(Encoder_new("GZIP", props.body))
        header == create_encoding_header(None, "GZIP")
        h2 == append(props.head.headers, "content-encoding", header)
        h3 == remove(h2, "content-length").map
    IN  from_parts([props.head EXCEPT !.headers = h3], body)

\* Mutant: Content-Length is left in place.
gzip_keeps_length(props) ==
    LET body == wrap_stream(Encoder_new("GZIP", props.body))
        r1 == remove(props.head.headers, "content-encoding")
        header == create_encoding_header(r1.ret, "GZIP")
        h2 == append(r1.map, "content-encoding", header)
    IN  from_parts([props.head EXCEPT !.headers = h2], body)

gzip(props) ==
    LET body == wrap_stream(Encoder_new("GZIP", props.body))
        r1 == remove(props.head.headers, "content-encoding")
        header == create_encoding_header(r1.ret, "GZIP")
        h2 == append(r1.map, "content-encoding", header)
        h3 == remove(h2, "content-length").map
    IN  from_parts([props.head EXCEPT !.headers = h3], body)

\* Mutant: the wrong header is removed.
deflate_removes_type(props) ==
    LET body == wrap_stream(Encoder_new("DEFLATE", props.body))
        r1 == remove(props.head.headers, "content-encoding")
        header == create_encoding_header(r1.ret, "DEFLATE")
        h2 == append(r1.map, "content-encoding", header)
        h3 == remove(remove(h2, "content-length").map, "content-type").map
    IN  from_parts([props.head EXCEPT !.headers = h3], body)

deflate(props) ==
    LET body == wrap_stream(Encoder_new("DEFLATE", props.body))
        r1 == remove(props.head.headers, "content-encoding")
        header == create_encoding_header(r1.ret, "DEFLATE")
        h2 == append(r1.map, "content-encoding", header)
        h3 == remove(h2, "content-length").map
    IN  from_parts([props.head EXCEPT !.headers = h3], body)

brotli(props) ==
    LET body == wrap_stream(Encoder_new("BROTLI", props.body))
        h1 == remove(props.head.headers, "content-length").map
        r2 == remove(h1, "content-encoding")
        header == create_encoding_header(r2.ret, "BROTLI")
        h3 == append(r2.map, "content-encoding", header)
    IN  from_parts([props.head EXCEPT !.headers = h3], body)

\* Mutant: a preferred coding that is not supported is answered with gzip.
auto_defaults_to_gzip(props) ==
    IF props.accept_enc # None /\ prefered_encoding(props.accept_enc[1]) # None
    THEN LET encoding == prefered_encoding(props.accept_enc[1])[1]
         IN  CASE encoding = "GZIP"    -> gzip(props)
               [] encoding = "DEFLATE" -> deflate(props)
               [] encoding = "BROTLI"  -> brotli(props)
               [] OTHER -> gzip(props)
    ELSE from_parts(props.head, wrap_stream(props.body))

\* Mutant: a response that already has a Content-Encoding is passed through.
auto_skips_encoded(props) ==
    IF /\ props.head.headers["content-encoding"] = << >>
       /\ props.accept_enc # None
       /\ prefered_encoding(props.accept_enc[1]) # None
    THEN LET encoding == prefered_encoding(props.accept_enc[1])[1]
         IN  CASE encoding = "GZIP"    -> gzip(props)
               [] encoding = "DEFLATE" -> deflate(props)
               [] encoding = "BROTLI"  -> brotli(props)
               [] OTHER -> from_parts(props.head, wrap_stream(props.body))
    ELSE from_parts(props.head, wrap_stream(props.body))

\* Mutant: the gzip and brotli arms are exchanged.
auto_swapped(props) ==
    IF props.accept_enc # None /\ prefered_encoding(props.accept_enc[1]) # None
    THEN LET encoding == prefered_encoding(props.accept_enc[1])[1]
         IN  CASE encoding = "GZIP"    -> brotli(props)
               [] encoding = "DEFLATE" -> deflate(props)
               [] encoding = "BROTLI"  -> gzip(props)
               [] OTHER -> from_parts(props.head, wrap_stream(props.body))
    ELSE from_parts(props.head, wrap_stream(props.body))

auto(props) ==
    IF props.accept_enc # None /\ prefered_encoding(props.accept_enc[1]) # None
    THEN LET encoding == prefered_encoding(props.accept_enc[1])[1]
         IN  CASE encoding = "GZIP"    -> gzip(props)
               [] encoding = "DEFLATE" -> deflate(props)
               [] encoding = "BROTLI"  -> brotli(props)
               [] OTHER -> from_parts(props.head, wrap_stream(props.body))
    ELSE from_parts(props.head, wrap_stream(props.body))

\* The four constructors of a Compression { func }.
Constructors == {"auto", "gzip", "deflate", "brotli"}

\* Mutant: every constructor negotiates.
func_negotiates(compress, props) == auto(props)

\* (self.compress.func)(compress_props)
func(compress, props) ==
    CASE compress = "gzip"    -> gzip(props)
      [] compress = "deflate" -> deflate(props)
      [] compress = "brotli"  -> brotli(props)
      [] OTHER                -> auto(props)

-----------------------------------------------------------------------------
(* Polling.  Poll<T> is [ready, val]: Pending has ready = FALSE, and        *)
(* Ready(v) carries v in val.  What a polled inner future or source stream  *)
(* answers is the environment's choice, handed to the poll as `o`.          *)

Pending == [ready |-> FALSE, val |-> None]
Ready(v) == [ready |-> TRUE, val |-> v]

\* Result<Bytes, E> of a body stream.
OkBytes(b) == [ok |-> TRUE, bytes |-> b, err |-> "none"]
ErrItem(e) == [ok |-> FALSE, bytes |-> << >>, err |-> e]

\* Result<Reply, Rejection> of a filter's future.
OkReply(r) == [ok |-> TRUE, reply |-> Some(r), reject |-> "none"]
ErrReject(e) == [ok |-> FALSE, reply |-> None, reject |-> e]

\* S::poll_next(pin.body, cx): the source is polled once and answers o.
S_poll_next(body, o) ==
    [body |-> [polls |-> body.polls + 1, log |-> Append(body.log, o)],
     ret |-> o]

\* Mutant: the source's error is handed on as it is.
poll_next_keeps_error(self, o) ==
    LET r == S_poll_next(self.body, o)
    IN  [self |-> [body |-> r.body], ret |-> r.ret]

\* Mutant: the source is polled once more than the consumer asked.
poll_next_prefetches(self, o) ==
    LET r == S_poll_next(self.body, o)
        ahead == S_poll_next(r.body, o)
        mapped == IF r.ret.ready /\ r.ret.val # None /\ ~r.ret.val[1].ok
                  THEN Ready(Some(ErrItem("io::ErrorKind::InvalidData")))
                  ELSE r.ret
    IN  [self |-> [body |-> ahead.body], ret |-> mapped]

\* CompressableBody::poll_next
poll_next(self, o) ==
    LET r == S_poll_next(self.body, o)
        mapped == IF r.ret.ready /\ r.ret.val # None /\ ~r.ret.val[1].ok
                  THEN Ready(Some(ErrItem("io::ErrorKind::InvalidData")))
                  ELSE r.ret
    IN  [self |-> [body |-> r.body], ret |-> mapped]

\* The codecs of async_compression are outside this crate.  A compressed
\* byte is modelled as the pair of the coding and the byte it stands for, and
\* the stream's trailer as the pair of the coding and -1: only the decoder of
\* the same coding reads them back.
Encode(coding, bytes) == [i \in 1..Len(bytes) |-> <<coding, bytes[i]>>]
Finish(coding) == << <<coding, -1>> >>

\* Stream::poll_next of GzipEncoder / DeflateEncoder / BrotliEncoder: nothing
\* is read at construction; a poll reads the inner stream, hands on Pending
\* and errors, answers a chunk with its compressed form and the end of the
\* inner stream with the trailer, and after that answers None without
\* polling again.  `polled` is what the inner stream returned in this poll.
Encoder_poll_next(self, o) ==
    IF self.done
    THEN [self |-> self, ret |-> Ready(None), polled |-> << >>]
    ELSE LET r == poll_next(self.inner, o)
             self1 == [self EXCEPT !.inner = r.self]
         IN  CASE ~r.ret.ready ->
                    [self |-> self1, ret |-> Pending, polled |-> <<r.ret>>]
               [] r.ret.ready /\ r.ret.val = None ->
                    [self |-> [self1 EXCEPT !.done = TRUE],
                     ret |-> Ready(Some(OkBytes(Finish(self.encoder)))),
                     polled |-> <<r.ret>>]
               [] r.ret.ready /\ r.ret.val # None /\ r.ret.val[1].ok ->
                    [self |-> self1,
                     ret |-> Ready(Some(OkBytes(Encode(self.encoder, r.ret.val[1].bytes)))),
                     polled |-> <<r.ret>>]
               [] OTHER ->
                    [self |-> self1, ret |-> r.ret, polled |-> <<r.ret>>]

\* The Body made by Body::wrap_stream, polled by the response writer: it
\* polls the stream it wraps.
Body_poll_data(body, o) ==
    IF "encoder" \in DOMAIN body.stream
    THEN LET r == Encoder_poll_next(body.stream, o)
         IN  [self |-> [stream |-> r.self], ret |-> r.ret, polled |-> r.polled]
    ELSE LET r == poll_next(body.stream, o)
         IN  [self |-> [stream |-> r.self], ret |-> r.ret, polled |-> <<r.ret>>]

\* pin.future.try_poll(cx): the inner future is polled once and answers o.
try_poll(future, o) == [future |-> [polls |-> future.polls + 1], ret |-> o]

\* Mutant: the header is not read from the request being served.
typed_get_cached(route) == Some(<<[coding |-> "gzip", q |-> 1000]>>)

\* route.headers().typed_get::<AcceptEncoding>()
typed_get(route) == route.accept_encoding

\* reply.into_response().into_parts()
into_parts(reply) == [head |-> reply.head, body |-> reply.body]

\* Mutant: the body is polled once while the props are put together.
compress_reply_eager(compress, route, reply) ==
    LET acc_enc == typed_get(route)
        parts == into_parts(reply)
        compress_props == [body |-> CompressableBody_from(
                                       S_poll_next(parts.body, Pending).body),
                           head |-> parts.head,
                           accept_enc |-> acc_enc]
    IN  func(compress, compress_props)

\* The route::with closure of WithCompressionFuture::poll: what a successful
\* reply becomes.
compress_reply(compress, route, reply) ==
    LET acc_enc == typed_get(route)
        parts == into_parts(reply)
        compress_props == [body |-> CompressableBody_from(parts.body),
                           head |-> parts.head,
                           accept_enc |-> acc_enc]
    IN  func(compress, compress_props)

NoCalls == [typed_get |-> 0, into_parts |-> 0, func |-> 0]
OneEach == [typed_get |-> 1, into_parts |-> 1, func |-> 1]

\* Mutant: a rejection is replaced by the filter's own.
poll_rewrites_error(self, route, o) ==
    LET r == try_poll(self.future, o)
        self1 == [self EXCEPT !.future = r.future]
    IN  IF ~r.ret.ready
        THEN [self |-> self1, ret |-> Pending, did |-> NoCalls]
        ELSE LET result == r.ret.val[1]
             IN  IF result.ok
                 THEN [self |-> self1,
                       ret |-> Ready(Some(OkReply(
                                  compress_reply(self.compress, route, result.reply[1])))),
                       did |-> OneEach]
                 ELSE [self |-> self1,
                       ret |-> Ready(Some(ErrReject("not_found"))),
                       did |-> NoCalls]

\* Mutant: Accept-Encoding is read before the inner future is known to be
\* ready.
poll_reads_header_first(self, route, o) ==
    LET r == try_poll(self.future, o)
        self1 == [self EXCEPT !.future = r.future]
    IN  IF ~r.ret.ready
        THEN [self |-> self1, ret |-> Pending,
              did |-> [NoCalls EXCEPT !.typed_get = 1]]
        ELSE LET result == r.ret.val[1]
             IN  IF result.ok
                 THEN [self |-> self1,
                       ret |-> Ready(Some(OkReply(
                                  compress_reply(self.compress, route, result.reply[1])))),
                       did |-> OneEach]
                 ELSE [self |-> self1,
                       ret |-> Ready(Some(ErrReject(result.reject))),
                       did |-> [NoCalls EXCEPT !.typed_get = 1]]

\* WithCompressionFuture::poll.  `did` counts what this poll called.
poll(self, route, o) ==
    LET r == try_poll(self.future, o)
        self1 == [self EXCEPT !.future = r.future]
    IN  IF ~r.ret.ready
        THEN [self |-> self1, ret |-> Pending, did |-> NoCalls]
        ELSE LET result == r.ret.val[1]
             IN  IF result.ok
                 THEN [self |-> self1,
                       ret |-> Ready(Some(OkReply(
                                  compress_reply(self.compress, route, result.reply[1])))),
                       did |-> OneEach]
                 ELSE [self |-> self1,
                       ret |-> Ready(Some(ErrReject(result.reject))),
                       did |-> NoCalls]

-----------------------------------------------------------------------------
(* Inputs.                                                                  *)

HeaderNames == {"content-encoding", "content-length", "content-type"}

\* Content-Encoding entries a handler's reply may already carry: none, one
\* token, a value that is not visible ASCII, two separate entries.
EncodingEntries ==
    { << >>,
      << to_string("GZIP") >>,
      << to_string("IDENTITY") >>,
      << <<200, 201>> >>,
      << to_string("GZIP"), to_string("DEFLATE") >> }

Heads ==
    { [status |-> s,
       headers |-> [n \in HeaderNames |->
                      CASE n = "content-encoding" -> ce
                        [] n = "content-length"   -> cl
                        [] OTHER                  -> ct]] :
      s \in {200, 404}, ce \in EncodingEntries,
      cl \in {<< >>, << <<53>> >>}, ct \in {<< >>, << <<116, 101, 120, 116>> >>} }

\* A hyper Body nobody has polled yet.
FreshBody == [polls |-> 0, log |-> << >>]

Replies == { [head |-> h, body |-> FreshBody] : h \in Heads }

Pref(c, q) == [coding |-> c, q |-> q]

\* The request's Accept-Encoding: absent, empty, one coding, or two codings
\* with qualities 0.5 / 1.0 in either order.
AcceptHeaders ==
    {None, Some(<< >>)}
    \cup { Some(<<Pref(c, 1000)>>) : c \in {"gzip", "deflate", "br", "identity", "zstd"} }
    \cup { Some(<<Pref(cs[1], q1), Pref(cs[2], q2)>>) :
             cs \in {<<"gzip", "br">>, <<"br", "gzip">>},
             q1 \in {500, 1000}, q2 \in {500, 1000} }

Routes == { [accept_encoding |-> a] : a \in AcceptHeaders }

Rejections == {"not_found", "method_not_allowed"}

\* What a polled inner future can answer.
InnerOutcomes(replies) ==
    {Pending}
    \cup { Ready(Some(OkReply(r))) : r \in replies }
    \cup { Ready(Some(ErrReject(e))) : e \in Rejections }

Chunks == { <<1>>, <<2, 3>> }

\* What a polled body source can answer.
SourceOutcomes ==
    {Pending, Ready(None)}
    \cup { Ready(Some(OkBytes(b))) : b \in Chunks }
    \cup { Ready(Some(ErrItem(e))) : e \in {"hyper::Error(IncompleteMessage)"} }

-----------------------------------------------------------------------------
(* State.                                                                   *)

VARIABLES
    route,      \* the request being served
    self,       \* the WithCompressionFuture: its compress and inner future
    state,      \* "Pending" until a poll returns Ready, then "Done"
    inner,      \* what the inner future completed with (None before)
    output,     \* what the middleware future completed with (None before)
    calls,      \* how often typed_get, into_parts and compress.func ran
    consumer,   \* the reader of the emitted body's adapter
    outLog,     \* what the adapter's poll_next returned, in order
    emitted,    \* what the emitted body returned to the response writer
    chain,      \* transforms applied one on another: [func, props, resp]
    merged,     \* the last call of create_encoding_header
    reqs        \* the futures of requests served side by side

vars == <<route, self, state, inner, output, calls, consumer, outLog, emitted,
          chain, merged, reqs>>

\* create_encoding_header not called yet, on the existing value e.
NoMerge(e) == [existing |-> e, coding |-> "IDENTITY", result |-> None, calls |-> 0]

NewFuture(compress) == [compress |-> compress, future |-> [polls |-> 0]]

NewConsumer == [polls |-> 0, ended |-> FALSE, dropped |-> FALSE, sourceAtDrop |-> 0]

\* The CompressableBody inside an emitted response: directly under
\* Body::wrap_stream (auto's pass-through) or under the encoder.
AdapterOf(resp) ==
    IF "encoder" \in DOMAIN resp.body.stream
    THEN resp.body.stream.inner
    ELSE resp.body.stream

WithAdapter(resp, adapter) ==
    IF "encoder" \in DOMAIN resp.body.stream
    THEN [resp EXCEPT !.body.stream.inner = adapter]
    ELSE [resp EXCEPT !.body.stream = adapter]

-----------------------------------------------------------------------------
(* Spec: one request through one WithCompression filter, and the reading of *)
(* the emitted body.                                                        *)

\* The replies the wrapped filter answers with.
MiddlewareReplies ==
    { r \in Replies : /\ r.head.status = 200
                      /\ r.head.headers["content-type"] # << >>
                      /\ r.head.headers["content-length"] # << >> }

Init ==
    /\ route \in Routes
    /\ self \in { NewFuture(c) : c \in Constructors }
    /\ state = "Pending"
    /\ inner = None
    /\ output = None
    /\ calls = NoCalls
    /\ consumer = NewConsumer
    /\ outLog = << >>
    /\ emitted = << >>
    /\ chain = << >>
    /\ merged = NoMerge(None)
    /\ reqs = << >>

\* The executor polls the middleware future.  A future that has returned
\* Ready is not polled again (the contract of Future::poll).
Poll ==
    /\ state = "Pending"
    /\ \E o \in InnerOutcomes(MiddlewareReplies) :
         /\ o.ready \/ self.future.polls < MaxPending
         /\ LET p == poll(self, route, o)
            IN  /\ self' = p.self
                /\ state' = IF p.ret.ready THEN "Done" ELSE "Pending"
                /\ inner' = o.val
                /\ output' = p.ret.val
                /\ calls' = [k \in DOMAIN calls |-> calls[k] + p.did[k]]
    /\ UNCHANGED <<route, consumer, outLog, emitted, chain, merged, reqs>>

\* The response writer polls the emitted body, which polls the adapter
\* (through the encoder, when there is one).  consumer.polls counts the
\* polls made on the adapter.
BodyPoll ==
    /\ output # None
    /\ output[1].ok
    /\ ~consumer.dropped
    /\ ~consumer.ended
    /\ LET resp == output[1].reply[1]
           finished == "encoder" \in DOMAIN resp.body.stream /\ resp.body.stream.done
       IN  /\ finished \/ consumer.polls < MaxPolls
           /\ \E o \in (IF finished THEN {Pending} ELSE SourceOutcomes) :
                LET p == Body_poll_data(resp.body, o)
                IN  /\ output' = Some(OkReply([resp EXCEPT !.body = p.self]))
                    /\ outLog' = outLog \o p.polled
                    /\ emitted' = Append(emitted, p.ret)
                    /\ consumer' = [consumer EXCEPT
                                      !.polls = @ + Len(p.polled),
                                      !.ended = p.ret.ready /\ p.ret.val = None]
    /\ UNCHANGED <<route, self, state, inner, calls, chain, merged, reqs>>

\* The reader drops the emitted body.
DropBody ==
    /\ output # None
    /\ output[1].ok
    /\ ~consumer.dropped
    /\ consumer' = [consumer EXCEPT
                      !.dropped = TRUE,
                      !.sourceAtDrop = AdapterOf(output[1].reply[1]).body.polls]
    /\ UNCHANGED <<route, self, state, inner, output, calls, outLog, emitted, chain,
                   merged, reqs>>

Next == Poll \/ BodyPoll \/ DropBody

Spec == Init /\ [][Next]_vars

-----------------------------------------------------------------------------
(* SpecTransform: a reply passed through compression functions one after    *)
(* another, as stacked .with(...) layers do within one request.             *)

InitTransform ==
    /\ route \in Routes
    /\ inner \in { Some(OkReply(r)) : r \in Replies }
    /\ self = NewFuture("auto")
    /\ state = "Done"
    /\ output = None
    /\ calls = NoCalls
    /\ consumer = NewConsumer
    /\ outLog = << >>
    /\ emitted = << >>
    /\ chain = << >>
    /\ merged = NoMerge(None)
    /\ reqs = << >>

\* The response the next layer receives.
Current == IF chain = << >> THEN inner[1].reply[1] ELSE chain[Len(chain)].resp

Apply ==
    /\ Len(chain) < MaxApplied
    /\ \E c \in Constructors :
         chain' = Append(chain, [func |-> c,
                                 reply |-> Current,
                                 resp |-> compress_reply(c, route, Current)])
    /\ UNCHANGED <<route, self, state, inner, output, calls, consumer, outLog, emitted,
                   merged, reqs>>

NextTransform == Apply

SpecTransform == InitTransform /\ [][NextTransform]_vars

-----------------------------------------------------------------------------
(* SpecMerge: create_encoding_header on its own, called on an existing      *)
(* value and then on its own results.                                       *)

\* Bytes a HeaderValue can hold: tab, space, comma, a letter, and a byte
\* above ASCII.
SampleBytes == {9, 32, 44, 103, 200}

SeqsUpTo(S, n) == UNION { [1..k -> S] : k \in 0..n }

ExistingValues == {None} \cup { Some(v) : v \in SeqsUpTo(SampleBytes, MaxValueLen) }

InitMerge ==
    /\ merged \in { NoMerge(e) : e \in ExistingValues }
    /\ route = [accept_encoding |-> None]
    /\ self = NewFuture("auto")
    /\ state = "Done"
    /\ inner = None
    /\ output = None
    /\ calls = NoCalls
    /\ consumer = NewConsumer
    /\ outLog = << >>
    /\ emitted = << >>
    /\ chain = << >>
    /\ reqs = << >>

Merge ==
    /\ merged.calls < MaxMerges
    /\ \E c \in ContentCodings :
         LET e == IF merged.calls = 0 THEN merged.existing ELSE merged.result
         IN  merged' = [existing |-> e,
                        coding |-> c,
                        result |-> Some(create_encoding_header(e, c)),
                        calls |-> merged.calls + 1]
    /\ UNCHANGED <<route, self, state, inner, output, calls, consumer, outLog, emitted,
                   chain, reqs>>

NextMerge == Merge

SpecMerge == InitMerge /\ [][NextMerge]_vars

-----------------------------------------------------------------------------
(* SpecTwo: two requests served side by side by the same wrapped filter.    *)

Requests == {1, 2}

TwoRoutes ==
    { [accept_encoding |-> a] :
        a \in {None, Some(<<Pref("gzip", 1000)>>),
               Some(<<Pref("gzip", 500), Pref("br", 1000)>>)} }

\* A plain reply and one that is already encoded.
TwoReplies ==
    { r \in Replies :
        \/ /\ r.head.status = 200
           /\ r.head.headers["content-encoding"] = << >>
           /\ r.head.headers["content-length"] # << >>
           /\ r.head.headers["content-type"] # << >>
        \/ /\ r.head.status = 404
           /\ r.head.headers["content-encoding"] = << to_string("GZIP") >>
           /\ r.head.headers["content-length"] = << >>
           /\ r.head.headers["content-type"] = << >> }

\* WithCompression::filter, called for a request.
NewRequest(compress, r) ==
    [route |-> r, self |-> NewFuture(compress), state |-> "Pending",
     inner |-> None, output |-> None, calls |-> NoCalls]

InitTwo ==
    /\ \E c \in Constructors :
         reqs \in [Requests -> { NewRequest(c, r) : r \in TwoRoutes }]
    /\ route = [accept_encoding |-> None]
    /\ self = NewFuture("auto")
    /\ state = "Done"
    /\ inner = None
    /\ output = None
    /\ calls = NoCalls
    /\ consumer = NewConsumer
    /\ outLog = << >>
    /\ emitted = << >>
    /\ chain = << >>
    /\ merged = NoMerge(None)

\* The executor polls the future of request k; route::with sees the route
\* of the request whose future is being polled.
PollTwo ==
    /\ \E k \in Requests :
         /\ reqs[k].state = "Pending"
         /\ \E o \in InnerOutcomes(TwoReplies) :
              /\ o.ready \/ reqs[k].self.future.polls < MaxPending
              /\ LET p == poll(reqs[k].self, reqs[k].route, o)
                 IN  reqs' = [reqs EXCEPT ![k] =
                                [route |-> reqs[k].route,
                                 self |-> p.self,
                                 state |-> IF p.ret.ready THEN "Done" ELSE "Pending",
                                 inner |-> o.val,
                                 output |-> p.ret.val,
                                 calls |-> [n \in DOMAIN NoCalls |->
                                              reqs[k].calls[n] + p.did[n]]]]
    /\ UNCHANGED <<route, self, state, inner, output, calls, consumer, outLog, emitted,
                   chain, merged>>

NextTwo == PollTwo

SpecTwo == InitTwo /\ [][NextTwo]_vars

-----------------------------------------------------------------------------
(* Properties.                                                              *)

FixedCodings == {"gzip", "deflate", "brotli"}

\* The token each constructor writes into Content-Encoding.
TokenOf(c) ==
    CASE c = "gzip"    -> <<103, 122, 105, 112>>
      [] c = "deflate" -> <<100, 101, 102, 108, 97, 116, 101>>
      [] c = "brotli"  -> <<98, 114>>

\* The left-most comma-separated token of a header value.
FirstToken(v) ==
    LET commas == { i \in 1..Len(v) : v[i] = 44 }
    IN  IF commas = {}
        THEN v
        ELSE SubSeq(v, 1, (CHOOSE i \in commas : \A j \in commas : i <= j) - 1)

\* v occurs in w, starting at position from or later.
OccursFrom(v, w, from) ==
    \E p \in from..(Len(w) - Len(v) + 1) : SubSeq(w, p, p + Len(v) - 1) = v

\* The bytes of the chunks among a sequence of poll results.
ChunkBytes(log) ==
    LET sel == SelectSeq(log, LAMBDA x : x.ready /\ x.val # None /\ x.val[1].ok)
    IN  [i \in 1..Len(sel) |-> sel[i].val[1].bytes]

CE(response) == response.head.headers["content-encoding"]
CL(response) == response.head.headers["content-length"]

\* C1: each of the gzip, deflate and brotli transforms returns a response
\* without Content-Length whose Content-Encoding starts with its own token,
\* whatever Content-Length and Content-Encoding the input head had.
C1_LengthRemovedCodingLeftmost ==
    \A i \in 1..Len(chain) :
        chain[i].func \in FixedCodings =>
            /\ CL(chain[i].resp) = << >>
            /\ CE(chain[i].resp) # << >>
            /\ FirstToken(CE(chain[i].resp)[1]) = TokenOf(chain[i].func)

C1_Witness ==
    \E i \in 1..Len(chain) :
        /\ chain[i].func \in FixedCodings
        /\ CL(chain[i].reply) # << >>
        /\ CE(chain[i].reply) # << >>

\* C2: when the inner future completes with an error, the middleware future
\* completes with that same error, and the reply is neither split nor
\* handed to the compression function.
C2_ErrorForwarded ==
    (inner # None /\ ~inner[1].ok) =>
        /\ output = inner
        /\ calls.func = 0
        /\ calls.into_parts = 0

C2_Witness ==
    /\ inner # None
    /\ ~inner[1].ok
    /\ inner[1].reject = "method_not_allowed"
    /\ self.future.polls > 1

\* The request names no preferred coding among gzip, deflate and br.
PassThroughCase ==
    \/ route.accept_encoding = None
    \/ prefered_encoding(route.accept_encoding[1]) = None
    \/ prefered_encoding(route.accept_encoding[1])[1] \notin {"GZIP", "DEFLATE", "BROTLI"}

\* C3: auto() on a request without Accept-Encoding, without a preferred
\* coding, or preferring identity or an unsupported coding returns the
\* input's status and headers unchanged, and a body that yields the input
\* body's chunks in order.
C3_AutoPassThrough ==
    (self.compress = "auto" /\ output # None /\ output[1].ok /\ PassThroughCase) =>
        LET resp == output[1].reply[1]
            reply == inner[1].reply[1]
        IN  /\ resp.head = reply.head
            /\ DOMAIN resp.body.stream = {"body"}
            /\ ChunkBytes(outLog) = ChunkBytes(resp.body.stream.body.log)

C3_Witness ==
    /\ self.compress = "auto"
    /\ output # None
    /\ output[1].ok
    /\ route.accept_encoding = Some(<<Pref("identity", 1000)>>)
    /\ CE(output[1].reply[1]) # << >>
    /\ ChunkBytes(outLog) = << <<1>>, <<2, 3>> >>

\* C4: auto() on a request whose preferred coding is gzip, deflate or br
\* returns what the gzip, deflate or brotli transform returns for the same
\* input; with gzip at 0.5 and br at 1.0 it is the brotli transform.
C4_AutoDispatch ==
    \A i \in 1..Len(chain) :
        (chain[i].func = "auto" /\ ~PassThroughCase) =>
            LET encoding == prefered_encoding(route.accept_encoding[1])[1]
                e == chain[i]
            IN  /\ encoding = "GZIP" => e.resp = compress_reply("gzip", route, e.reply)
                /\ encoding = "DEFLATE" => e.resp = compress_reply("deflate", route, e.reply)
                /\ encoding = "BROTLI" => e.resp = compress_reply("brotli", route, e.reply)
                /\ route.accept_encoding = Some(<<Pref("gzip", 500), Pref("br", 1000)>>) =>
                       /\ e.resp.body.stream.encoder = "BROTLI"
                       /\ FirstToken(CE(e.resp)[1]) = TokenOf("brotli")

C4_Witness ==
    \E i \in 1..Len(chain) :
        /\ chain[i].func = "auto"
        /\ route.accept_encoding = Some(<<Pref("gzip", 500), Pref("br", 1000)>>)
        /\ chain[i].resp.body.stream.encoder = "BROTLI"

\* C5: after a gzip, deflate or brotli transform every Content-Encoding value
\* the input head carried still appears in Content-Encoding, to the right of
\* the newly applied coding.
C5_ExistingEncodingKept ==
    \A i \in 1..Len(chain) :
        chain[i].func \in FixedCodings =>
            LET old == CE(chain[i].reply)
                new == CE(chain[i].resp)
                token == TokenOf(chain[i].func)
            IN  \A k \in 1..Len(old) :
                    \E j \in 1..Len(new) :
                        /\ FirstToken(new[1]) = token
                        /\ OccursFrom(old[k], new[j],
                                      IF j = 1 THEN Len(token) + 1 ELSE 1)

RECURSIVE Joined(_)
\* The tokens of the first n applied codings, most recent first.
Joined(n) ==
    IF n = 1
    THEN TokenOf(chain[1].func)
    ELSE TokenOf(chain[n].func) \o <<44, 32>> \o Joined(n - 1)

\* C6: on a response without Content-Encoding, n stacked transforms leave
\* one value listing the n codings in reverse order of application,
\* separated by ", ": A alone gives "A", A then B gives "B, A".
C6_MergeOrder ==
    ( /\ chain # << >>
      /\ CE(inner[1].reply[1]) = << >>
      /\ \A i \in 1..Len(chain) : chain[i].func \in FixedCodings ) =>
        CE(Current) = << Joined(Len(chain)) >>

C6_Witness ==
    /\ Len(chain) >= 2
    /\ CE(inner[1].reply[1]) = << >>
    /\ chain[1].func = "gzip"
    /\ chain[2].func = "brotli"
    /\ CE(Current) = << <<98, 114, 44, 32, 103, 122, 105, 112>> >>

\* C7: while the inner future has not completed every poll returns Pending
\* and neither Accept-Encoding is read nor the compression function called;
\* the compression function is called at most once, at the poll that sees
\* the inner future's success.
C7_PendingToDoneOnce ==
    /\ inner = None => (state = "Pending" /\ output = None /\ calls = NoCalls)
    /\ inner # None => (state = "Done" /\ output # None)
    /\ calls.func <= 1
    /\ calls.typed_get <= 1
    /\ calls.func = 1 <=> (inner # None /\ inner[1].ok)

C7_Witness ==
    /\ state = "Done"
    /\ calls.func = 1
    /\ self.future.polls >= 2

\* What the adapter is to return for what the source answered.
Adapted(o) ==
    IF o.ready /\ o.val # None /\ ~o.val[1].ok
    THEN [ready |-> TRUE,
          val |-> << [ok |-> FALSE, bytes |-> << >>, err |-> "io::ErrorKind::InvalidData"] >>]
    ELSE o

\* C8: the adapter returns Pending for Pending, the same chunk for a chunk,
\* end-of-stream for end-of-stream and an InvalidData I/O error for an error
\* of the source, one result per result of the source, in the same order.
C8_AdapterPreservesSequence ==
    IF output # None /\ output[1].ok
    THEN LET src == AdapterOf(output[1].reply[1]).body.log
         IN  /\ Len(outLog) = Len(src)
             /\ \A i \in 1..Len(src) : outLog[i] = Adapted(src[i])
    ELSE outLog = << >>

C8_Witness ==
    /\ output # None
    /\ output[1].ok
    /\ consumer.ended
    /\ LET src == AdapterOf(output[1].reply[1]).body.log
       IN  /\ \E i \in 1..Len(src) : src[i].ready /\ src[i].val # None /\ ~src[i].val[1].ok
           /\ \E i \in 1..Len(src) : src[i].ready /\ src[i].val # None /\ src[i].val[1].ok

\* C9: the source is polled once for each poll of the adapter and never
\* otherwise, the adapter holds nothing but the source, and after the
\* consumer dropped the stream the source is not polled again.
C9_AdapterDoesNoWork ==
    (output # None /\ output[1].ok) =>
        LET adapter == AdapterOf(output[1].reply[1])
        IN  /\ adapter.body.polls = consumer.polls
            /\ DOMAIN adapter = {"body"}
            /\ Len(adapter.body.log) = Len(outLog)
            /\ consumer.dropped => adapter.body.polls = consumer.sourceAtDrop

C9_Witness ==
    /\ consumer.dropped
    /\ consumer.polls >= 2
    /\ ~consumer.ended
    /\ Len(ChunkBytes(outLog)) >= 1

\* C10: the gzip, deflate and brotli transforms leave the status and every
\* header other than Content-Encoding and Content-Length as they were.
C10_OtherHeadersUntouched ==
    \A i \in 1..Len(chain) :
        chain[i].func \in FixedCodings =>
            /\ chain[i].resp.head.status = chain[i].reply.head.status
            /\ DOMAIN chain[i].resp.head.headers = DOMAIN chain[i].reply.head.headers
            /\ \A n \in HeaderNames \ {"content-encoding", "content-length"} :
                   chain[i].resp.head.headers[n] = chain[i].reply.head.headers[n]

C10_Witness ==
    \E i \in 1..Len(chain) :
        /\ chain[i].func \in FixedCodings
        /\ chain[i].reply.head.status = 404
        /\ chain[i].reply.head.headers["content-type"] # << >>
        /\ CL(chain[i].reply) # << >>

\* The encoder each constructor puts around the body.
EncoderOf(c) ==
    CASE c = "gzip"    -> "GZIP"
      [] c = "deflate" -> "DEFLATE"
      [] c = "brotli"  -> "BROTLI"

\* The decoder a reader picks for a Content-Encoding token.
DecoderFor(token) ==
    CASE token = <<103, 122, 105, 112>>                -> "GZIP"
      [] token = <<100, 101, 102, 108, 97, 116, 101>> -> "DEFLATE"
      [] token = <<98, 114>>                           -> "BROTLI"
      [] OTHER                                         -> "IDENTITY"

\* What the decoder of a coding reads out of compressed data: the bytes, when
\* the data is a complete stream of that coding; None otherwise.
Decode(coding, data) ==
    IF /\ Len(data) >= 1
       /\ data[Len(data)] = <<coding, -1>>
       /\ \A i \in 1..(Len(data) - 1) : data[i][1] = coding /\ data[i][2] >= 0
    THEN Some([i \in 1..(Len(data) - 1) |-> data[i][2]])
    ELSE None

RECURSIVE Concat(_)
\* The concatenation of a sequence of chunks.
Concat(chunks) ==
    IF chunks = << >> THEN << >> ELSE Head(chunks) \o Concat(Tail(chunks))

IsError(o) == o.ready /\ o.val # None /\ ~o.val[1].ok

C12_FixedCoding ==
    (self.compress \in FixedCodings /\ output # None /\ output[1].ok) =>
        LET resp == output[1].reply[1]
        IN  /\ "encoder" \in DOMAIN resp.body.stream
            /\ resp.body.stream.encoder = EncoderOf(self.compress)
            /\ FirstToken(CE(resp)[1]) = TokenOf(self.compress)

C12_Witness ==
    /\ self.compress = "deflate"
    /\ route.accept_encoding = Some(<<Pref("gzip", 500), Pref("br", 1000)>>)
    /\ output # None
    /\ output[1].ok
    /\ output[1].reply[1].body.stream.encoder = "DEFLATE"

\* C14: a successful inner reply makes the middleware future complete with a
\* response while the body's source has not been polled; the source is
\* polled only in polls of the emitted body, and an error of the source
\* shows there, as an InvalidData I/O error, the response staying Ok.
C14_LazyCompression ==
    /\ (inner # None /\ inner[1].ok) => (output # None /\ output[1].ok)
    /\ (output # None /\ output[1].ok) =>
          LET src == AdapterOf(output[1].reply[1]).body
          IN  /\ emitted = << >> => src.polls = 0
              /\ src.polls <= Len(emitted)
              /\ \A i \in 1..Len(src.log) :
                    IsError(src.log[i]) =>
                        /\ i <= Len(emitted)
                        /\ IsError(emitted[i])
                        /\ emitted[i].val[1].err = "io::ErrorKind::InvalidData"

C14_Witness ==
    /\ state = "Done"
    /\ output # None
    /\ output[1].ok
    /\ "encoder" \in DOMAIN output[1].reply[1].body.stream
    /\ Len(emitted) = 2
    /\ ~IsError(emitted[1])
    /\ IsError(emitted[2])

\* The token of each ContentCoding.
CodingToken(coding) ==
    CASE coding = "GZIP"     -> <<103, 122, 105, 112>>
      [] coding = "DEFLATE"  -> <<100, 101, 102, 108, 97, 116, 101>>
      [] coding = "BROTLI"   -> <<98, 114>>
      [] coding = "COMPRESS" -> <<99, 111, 109, 112, 114, 101, 115, 115>>
      [] coding = "IDENTITY" -> <<105, 100, 101, 110, 116, 105, 116, 121>>

\* Visible ASCII text (tabs allowed).
IsText(v) == \A i \in 1..Len(v) : (v[i] >= 32 /\ v[i] <= 126) \/ v[i] = 9

\* Bytes a header value may hold.
IsHeaderValue(v) == \A i \in 1..Len(v) : (v[i] >= 32 /\ v[i] # 127) \/ v[i] = 9

\* C13: create_encoding_header always returns a header value: on an existing
\* value that is text it is "<coding>, <existing>", without an existing value
\* it is the coding alone, and it is never anything but one of the two.
C13_MergeNeverFails ==
    merged.calls >= 1 =>
        /\ merged.result # None
        /\ LET e == merged.existing
               r == merged.result[1]
               token == CodingToken(merged.coding)
           IN  /\ IsHeaderValue(r)
               /\ e = None => r = token
               /\ (e # None /\ IsText(e[1])) => r = token \o <<44, 32>> \o e[1]
               /\ r = token \/ (e # None /\ r = token \o <<44, 32>> \o e[1])

C13_Witness ==
    /\ merged.calls = 2
    /\ merged.coding = "COMPRESS"
    /\ merged.existing = Some(<<98, 114, 44, 32, 103, 9>>)
    /\ merged.result = Some(<<99, 111, 109, 112, 114, 101, 115, 115, 44, 32,
                              98, 114, 44, 32, 103, 9>>)

\* The coding a response went through last: its encoder, or IDENTITY when
\* the body is only re-wrapped.
AppliedCoding(resp) ==
    IF "encoder" \in DOMAIN resp.body.stream
    THEN resp.body.stream.encoder
    ELSE "IDENTITY"

\* The coding a filter is to apply for a request, from its constructor and
\* the request's Accept-Encoding.
ExpectedCoding(compress, r) ==
    IF compress \in FixedCodings
    THEN EncoderOf(compress)
    ELSE IF r.accept_encoding = None \/ r.accept_encoding[1] = << >>
         THEN "IDENTITY"
         ELSE LET top == prefered_encoding(r.accept_encoding[1])[1]
              IN  IF top \in {"GZIP", "DEFLATE", "BROTLI"} THEN top ELSE "IDENTITY"

\* The head a reply with at most one, textual, Content-Encoding value gets
\* under a coding.
ExpectedHead(reply, coding) ==
    IF coding = "IDENTITY"
    THEN reply.head
    ELSE [status |-> reply.head.status,
          headers |-> [n \in HeaderNames |->
              CASE n = "content-length" -> << >>
                [] n = "content-encoding" ->
                     IF CE(reply) = << >>
                     THEN << CodingToken(coding) >>
                     ELSE << CodingToken(coding) \o <<44, 32>> \o CE(reply)[1] >>
                [] OTHER -> reply.head.headers[n]]]

\* C15: of two futures of the same wrapped filter polled in any order, each
\* is pending until its own inner future completes and then holds the error
\* of its own inner future, or the head and coding that its own reply and
\* its own request's Accept-Encoding give.
C15_RequestsIsolated ==
    \A k \in DOMAIN reqs :
        LET q == reqs[k]
        IN  /\ q.inner = None => (q.state = "Pending" /\ q.output = None)
            /\ (q.inner # None /\ ~q.inner[1].ok) => q.output = q.inner
            /\ (q.inner # None /\ q.inner[1].ok) =>
                  /\ q.output # None
                  /\ q.output[1].ok
                  /\ LET coding == ExpectedCoding(q.self.compress, q.route)
                         resp == q.output[1].reply[1]
                     IN  /\ AppliedCoding(resp) = coding
                         /\ resp.head = ExpectedHead(q.inner[1].reply[1], coding)

C15_Witness ==
    /\ reqs # << >>
    /\ reqs[1].self.compress = "auto"
    /\ reqs[1].route.accept_encoding = None
    /\ reqs[2].route.accept_encoding = Some(<<Pref("gzip", 500), Pref("br", 1000)>>)
    /\ reqs[2].state = "Pending"
    /\ reqs[2].self.future.polls = 1
    /\ reqs[1].output # None
    /\ reqs[1].output[1].ok

\* C16: after a gzip, deflate or brotli transform, whatever the head was
\* before, the header map holds one Content-Encoding entry and no
\* Content-Length entry.
C16_OneEncodingEntry ==
    \A i \in 1..Len(chain) :
        chain[i].func \in FixedCodings =>
            /\ Len(CE(chain[i].resp)) = 1
            /\ Len(CL(chain[i].resp)) = 0

C16_Witness ==
    \E i \in 1..Len(chain) :
        /\ chain[i].func \in FixedCodings
        /\ Len(CE(chain[i].reply)) = 2
        /\ i > 1

\* C17: under auto() two successful replies served for the same
\* Accept-Encoding get the same coding, however they differ; a reply that
\* already has a Content-Encoding is encoded again when the request prefers
\* gzip, deflate or br.
C17_CodingFromRequestAlone ==
    \A k \in DOMAIN reqs :
        LET q == reqs[k]
        IN  (q.self.compress = "auto" /\ q.output # None /\ q.output[1].ok) =>
                /\ \A j \in DOMAIN reqs :
                      ( /\ reqs[j].output # None
                        /\ reqs[j].output[1].ok
                        /\ reqs[j].route = q.route ) =>
                          AppliedCoding(reqs[j].output[1].reply[1])
                              = AppliedCoding(q.output[1].reply[1])
                /\ ( /\ CE(q.inner[1].reply[1]) # << >>
                     /\ q.route.accept_encoding # None
                     /\ q.route.accept_encoding[1] # << >> ) =>
                       /\ "encoder" \in DOMAIN q.output[1].reply[1].body.stream
                       /\ Len(CE(q.output[1].reply[1])[1]) > Len(CE(q.inner[1].reply[1])[1])

C17_Witness ==
    /\ reqs # << >>
    /\ reqs[1].self.compress = "auto"
    /\ reqs[1].route = reqs[2].route
    /\ reqs[1].route.accept_encoding = Some(<<Pref("gzip", 1000)>>)
    /\ reqs[1].output # None
    /\ reqs[1].output[1].ok
    /\ reqs[2].output # None
    /\ reqs[2].output[1].ok
    /\ CE(reqs[1].inner[1].reply[1]) = << >>
    /\ CE(reqs[2].inner[1].reply[1]) = << <<103, 122, 105, 112>> >>
    /\ CE(reqs[2].output[1].reply[1]) = << <<103, 122, 105, 112, 44, 32, 103, 122, 105, 112>> >>

====
